---- MODULE Spec2Model ----
(***************************************************************************)
(* State-machine model of the IoT agriculture backend:                     *)
(*   main.go                       dispatcher queue, worker, event loop    *)
(*   services/averaging_service.go per-key window accumulator and flush    *)
(*   services (InfluxDBService)    circuit breaker around the sink write   *)
(* Time is a discrete clock `now`; one unit stands for the breaker's open  *)
(* period divided by `timeout`.                                            *)
(***************************************************************************)
EXTENDS Integers, Sequences, FiniteSets, TLC

(***************************************************************************)
(* Bounds of the model.                                                    *)
(***************************************************************************)
\* messages the transport delivers in one run
MaxMsgs == 3
\* last value of the clock
MaxTime == 2
\* capacity of msgChan (1000 in main.go:42), scaled down
QueueCap == 2
\* breaker failure threshold (5 in NewInfluxDBService), scaled down
threshold == 2
\* breaker open period in clock units (30 s in NewInfluxDBService)
timeout == 1

(***************************************************************************)
(* Data: sensor fields, payloads, parsing.                                 *)
(***************************************************************************)
\* the optional sensor channels, in the order the code visits them
FieldOrder ==
  <<"Bag_Temp", "Light_Par", "Air_Temp", "Air_Rh", "Leaf_temp", "drip_weight",
    "Bag_Rh1", "Bag_Rh2", "Bag_Rh3", "Bag_Rh4", "Rain">>

FieldSet == {FieldOrder[i] : i \in 1..Len(FieldOrder)}

\* JSON payloads the transport may deliver (a bounded sample): an object is a
\* record of its keys; a payload that is no JSON object is marked malformed
Payloads ==
  { [greenhouse_id |-> "GH1", node_id |-> "Node01", Bag_Temp |-> 2, Light_Par |-> 4],
    [greenhouse_id |-> "GH1", node_id |-> "Node05", Light_Par |-> 0],
    [greenhouse_id |-> "GH1", node_id |-> "Node05"],
    [malformed |-> TRUE] }

\* a wider sample of payloads for the accumulator driven on its own: readings
\* of one node that report different field subsets, a zero value, no field at
\* all, and identifiers that contain the key separator
TestPayloads ==
  { [greenhouse_id |-> "GH1", node_id |-> "Node01", Bag_Temp |-> 2, Light_Par |-> 4],
    [greenhouse_id |-> "GH1", node_id |-> "Node01", Bag_Temp |-> 4],
    [greenhouse_id |-> "GH1", node_id |-> "Node01", Bag_Temp |-> 6, Light_Par |-> 0],
    [greenhouse_id |-> "GH1", node_id |-> "Node01", Light_Par |-> 8],
    [greenhouse_id |-> "GH1", node_id |-> "Node01"],
    [greenhouse_id |-> "A|B", node_id |-> "C", Air_Temp |-> 1],
    [greenhouse_id |-> "A", node_id |-> "B|C", Air_Temp |-> 3],
    [malformed |-> TRUE] }

\* a variant in which every payload parses
ParseOKAlways(p) == TRUE

\* json.Unmarshal into ESP32SensorData: FALSE when the payload does not parse
ParseOK(p) == "malformed" \notin DOMAIN p

\* json.Unmarshal into ESP32SensorData: the identifiers default to "", a sensor
\* pointer is non-nil exactly when its JSON key is present
ESP32SensorData(p) ==
  [ GreenhouseID |-> IF "greenhouse_id" \in DOMAIN p THEN p.greenhouse_id ELSE "",
    NodeID       |-> IF "node_id" \in DOMAIN p THEN p.node_id ELSE "",
    vals         |-> [f \in (DOMAIN p) \cap FieldSet |-> p[f]] ]

\* the data every parseable payload of the two samples decodes to
Readings == {ESP32SensorData(p) : p \in {q \in Payloads \cup TestPayloads : ParseOK(q)}}

\* a variant that keys the buffers by the greenhouse alone
BufferKeyGreenhouseOnly(data) == data.GreenhouseID \o "|"

\* key := data.GreenhouseID + "|" + data.NodeID
BufferKey(data) == data.GreenhouseID \o "|" \o data.NodeID

Keys == {BufferKey(d) : d \in Readings}

(***************************************************************************)
(* Arithmetic of the aggregator.                                           *)
(***************************************************************************)
RECURSIVE SumSeq(_)
SumSeq(s) == IF s = <<>> THEN 0 ELSE Head(s) + SumSeq(Tail(s))

Abs(n) == IF n < 0 THEN -n ELSE n

RECURSIVE GCD(_, _)
GCD(a, b) == IF b = 0 THEN a ELSE GCD(b, a % b)

\* the quotient sum/n as a fraction in lowest terms (the value float64 division
\* rounds); n > 0
Quotient(sum, n) ==
  LET g == GCD(Abs(sum), n)
  IN  [num |-> sum \div g, den |-> n \div g]

\* a variant that divides as integers
calculateAverageTruncated(values) ==
  IF Len(values) = 0 THEN [num |-> 0, den |-> 1]
  ELSE [num |-> SumSeq(values) \div Len(values), den |-> 1]

\* calculateAverage: 0.0 for an empty slice, else float64(sum)/float64(len)
calculateAverage(values) ==
  IF Len(values) = 0 THEN [num |-> 0, den |-> 1]
  ELSE Quotient(SumSeq(values), Len(values))

\* the non-empty field sequences of a buffer, in FieldOrder
NonEmptyFields(buf) ==
  SelectSeq(FieldOrder, LAMBDA f : Len(buf.vals[f]) > 0)

\* a variant whose Readings is the length of the last non-empty sequence
calculateAveragesForBufferLastField(buf, t) ==
  [ GreenhouseID |-> buf.GreenhouseID,
    NodeID       |-> buf.NodeID,
    Duration     |-> t - buf.StartTime,
    Readings     |-> IF NonEmptyFields(buf) = <<>> THEN 0
                     ELSE Len(buf.vals[NonEmptyFields(buf)[Len(NonEmptyFields(buf))]]),
    avg          |-> [f \in {g \in FieldSet : Len(buf.vals[g]) > 0} |->
                        calculateAverage(buf.vals[f])] ]

\* calculateAveragesForBuffer: Duration from the buffer's start, a mean for every
\* non-empty field sequence, Readings = length of the first non-empty sequence
calculateAveragesForBuffer(buf, t) ==
  [ GreenhouseID |-> buf.GreenhouseID,
    NodeID       |-> buf.NodeID,
    Duration     |-> t - buf.StartTime,
    Readings     |-> IF NonEmptyFields(buf) = <<>> THEN 0
                     ELSE Len(buf.vals[Head(NonEmptyFields(buf))]),
    avg          |-> [f \in {g \in FieldSet : Len(buf.vals[g]) > 0} |->
                        calculateAverage(buf.vals[f])] ]

\* a variant that leaves StartTime at the zero time
NewBufferZeroStart(data, t) ==
  [ GreenhouseID |-> data.GreenhouseID,
    NodeID       |-> data.NodeID,
    StartTime    |-> 0,
    vals         |-> [f \in FieldSet |-> <<>>] ]

\* the buffer AddSensorData creates for a key that has none
NewBuffer(data, t) ==
  [ GreenhouseID |-> data.GreenhouseID,
    NodeID       |-> data.NodeID,
    StartTime    |-> t,
    vals         |-> [f \in FieldSet |-> <<>>] ]

\* a variant that takes a field for reported only when its value is not 0
AppendReadingNonZero(buf, data) ==
  [buf EXCEPT !.vals = [f \in FieldSet |->
      IF f \in DOMAIN data.vals /\ data.vals[f] # 0
        THEN Append(buf.vals[f], data.vals[f])
        ELSE buf.vals[f]]]

\* a variant that empties the sequences of the fields a reading does not carry
AppendReadingReplace(buf, data) ==
  [buf EXCEPT !.vals = [f \in FieldSet |->
      IF f \in DOMAIN data.vals THEN Append(buf.vals[f], data.vals[f])
      ELSE <<>>]]

\* the appends of AddSensorData: every field the reading carries, one value each
AppendReading(buf, data) ==
  [buf EXCEPT !.vals = [f \in FieldSet |->
      IF f \in DOMAIN data.vals THEN Append(buf.vals[f], data.vals[f])
      ELSE buf.vals[f]]]

\* the map after AddSensorData(data) at time t
AddToBuffers(bufs, data, t) ==
  LET key == BufferKey(data)
      buf == IF key \in DOMAIN bufs THEN bufs[key] ELSE NewBuffer(data, t)
  IN  [k \in DOMAIN bufs \cup {key} |->
         IF k = key THEN AppendReading(buf, data) ELSE bufs[k]]

\* make(map[string]*models.SensorAverages)
EmptyBuffers == [k \in {} |-> NewBuffer([GreenhouseID |-> "", NodeID |-> "", vals |-> <<>>], 0)]

RECURSIVE FieldValueCount(_, _)
\* GetReadingCount, one buffer: count += len(buf.X) for each of the fields fs
FieldValueCount(buf, fs) ==
  IF fs = {} THEN 0
  ELSE LET f == CHOOSE g \in fs : TRUE
       IN  Len(buf.vals[f]) + FieldValueCount(buf, fs \ {f})

RECURSIVE GetReadingCountOver(_, _)
\* GetReadingCount: the loop over the buffers ks of the map
GetReadingCountOver(bufs, ks) ==
  IF ks = {} THEN 0
  ELSE LET k == CHOOSE j \in ks : TRUE
       IN  FieldValueCount(bufs[k], FieldSet) + GetReadingCountOver(bufs, ks \ {k})

\* GetReadingCount under a.mu: the value it returns (the map is only read)
GetReadingCount(bufs) == GetReadingCountOver(bufs, DOMAIN bufs)

(***************************************************************************)
(* Circuit breaker of InfluxDBService: pure parts.                         *)
(***************************************************************************)
StateClosed == 0
StateOpen == 1
StateHalfOpen == 2

\* a variant that lets the probe through as soon as the open period is reached
TimeoutElapsedInclusive(last, t) == t - last >= timeout

\* a variant in which the open period never ends
TimeoutNeverElapsed(last, t) == FALSE

\* canExecute, case StateOpen: time.Since(i.lastFailureTime) > i.timeout
TimeoutElapsed(last, t) == t - last > timeout

\* recordFailure: the state after the count was incremented to cnt
StateAfterFailure(st, cnt) ==
  IF st = StateClosed /\ cnt >= threshold THEN StateOpen
  ELSE IF st = StateHalfOpen THEN StateOpen
  ELSE st

\* a variant that closes the breaker but keeps the failure count
AfterSuccessKeepCount(st, cnt) ==
  IF st = StateHalfOpen THEN [state |-> StateClosed, failureCount |-> cnt]
  ELSE [state |-> st, failureCount |-> cnt]

\* recordSuccess: state and failure count afterwards
AfterSuccess(st, cnt) ==
  IF st = StateHalfOpen THEN [state |-> StateClosed, failureCount |-> 0]
  ELSE [state |-> st, failureCount |-> cnt]

(***************************************************************************)
(* State.                                                                  *)
(***************************************************************************)
\* goroutines that call InfluxDBService.LogAverages: the event loop of main, and
\* two further clients used only by SpecBreaker
Clients == {"c1", "c2"}
Callers == {"main"} \cup Clients

VARIABLES
  now,              \* the clock
  msgChan,          \* main.go msgChan: the queued payloads
  chanClosed,       \* close(msgChan) was executed
  mqttConnected,    \* the MQTT client still delivers messages
  delivered,        \* messages the transport handed to mqttHandler
  dropped,          \* "channel full" warnings logged
  panicked,         \* the process died of a send on a closed channel
  wpc, wdata,       \* worker goroutine: position and the reading it holds
  buffers,          \* AveragingService.buffers
  amu,              \* AveragingService.mu: "free" or the holder
  mpc,              \* event loop of main: loop, iter, log, shutdown, exited
  pending,          \* keys the running flush has not visited yet
  cur,              \* key the running flush is logging
  sdi,              \* index of the next step of the shutdown sequence
  tickerStopped,    \* ticker.Stop() was executed
  apiRunning,       \* the API server accepts requests
  connected,        \* InfluxDBService: client != nil && writeAPI != nil
  shutdown,         \* InfluxDBService.shutdown
  state, failureCount, lastFailureTime,   \* InfluxDBService circuit breaker
  lpc, lret,        \* per caller: position in LogAverages, its return value
  seen,             \* per caller: the breaker fields canExecute read
  metrics,          \* MetricsService counters
  queryResult,      \* the response GetAverages returns in this step, if any
  countResult,      \* the value GetReadingCount returns in this step, if any
  rlCount,          \* Redis: the counter stored under each rate-limit key
  rpc,              \* per API request: its position in RateLimitMiddleware
  rkey,             \* per API request: the rate-limit key checkRateLimit built
  rout,             \* per API request: "next" (handler called) or "429"
  rerr,             \* history: per API request, a Redis call returned an error
  passed,           \* history: per key, requests checkRateLimit has allowed
  added,            \* history: per key, the readings AddSensorData received
  drainedTo,        \* history: per key, how many of them flushes have consumed
  displayed,        \* history: the results flushes computed (the printed log)
  flushResults,     \* history: results of the running flush
  lastFlush,        \* history: results of the most recently completed flush
  failStreak        \* history: failed sink writes since the last successful one

queueVars == <<msgChan, chanClosed, mqttConnected, delivered, dropped, panicked>>
workerVars == <<wpc, wdata>>
accVars == <<buffers, amu>>
mainVars == <<mpc, pending, cur, sdi, tickerStopped, apiRunning>>
breakerVars == <<state, failureCount, lastFailureTime>>
influxVars == <<connected, shutdown, breakerVars, lpc, lret, seen, failStreak>>
histVars == <<added, drainedTo, displayed, flushResults, lastFlush>>
rateVars == <<rlCount, rpc, rkey, rout, rerr, passed>>
vars == <<now, queueVars, workerVars, accVars, mainVars, influxVars, metrics,
          queryResult, countResult, rateVars, histVars>>

NoData == [GreenhouseID |-> "", NodeID |-> "", vals |-> <<>>]

\* canExecute holds no values read before a lock upgrade
NotSeen == <<StateClosed, 0, 0>>

\* no API response is produced in this step
NoQuery == [made |-> FALSE, results |-> {}]

\* GetReadingCount is not called in this step
NoCount == [made |-> FALSE, count |-> 0]

\* rate limit of the API per client and minute (60 in api.go:45), scaled down
RequestsPerMinute == 2

\* API requests in flight at the same time, one more than the limit
Requests == 1..(RequestsPerMinute + 1)

\* getClientIP: the client addresses of the sample
ClientIPs == {"10.0.0.1", "10.0.0.2"}

\* checkRateLimit: windowStart := now.Add(-time.Minute);
\* key := "rate_limit:<ip>:<windowStart.Unix()/60>", the clock counted in minutes
RateLimitKey(ip, t) == <<ip, t - 1>>

\* every key checkRateLimit can build while the clock runs
RateLimitKeys == {RateLimitKey(ip, t) : ip \in ClientIPs, t \in 0..MaxTime}

\* no key was built yet
NoKey == <<"", 0>>

\* the state after construction (main.go up to the event loop); NewInfluxDBService
\* returns a connected service, or one without client when the token is missing
\* or the ping fails
Init ==
  /\ now = 0
  /\ msgChan = <<>> /\ chanClosed = FALSE /\ mqttConnected = TRUE
  /\ delivered = 0 /\ dropped = 0 /\ panicked = FALSE
  /\ wpc = "idle" /\ wdata = NoData
  /\ buffers = EmptyBuffers /\ amu = "free"
  /\ mpc = "loop" /\ pending = {} /\ cur = "" /\ sdi = 1
  /\ tickerStopped = FALSE /\ apiRunning = TRUE
  /\ connected \in BOOLEAN /\ shutdown = FALSE
  /\ state = StateClosed /\ failureCount = 0 /\ lastFailureTime = 0
  /\ lpc = [c \in Callers |-> "idle"] /\ lret = [c \in Callers |-> "none"]
  /\ seen = [c \in Callers |-> NotSeen]
  /\ metrics = [mqttMessages |-> 0, sensorReadings |-> 0,
                influxWrites |-> 0, influxWriteErrors |-> 0]
  /\ queryResult = NoQuery
  /\ countResult = NoCount
  /\ rlCount = [k \in RateLimitKeys |-> 0]
  /\ rpc = [r \in Requests |-> "idle"] /\ rkey = [r \in Requests |-> NoKey]
  /\ rout = [r \in Requests |-> "none"] /\ rerr = [r \in Requests |-> FALSE]
  /\ passed = [k \in RateLimitKeys |-> 0]
  /\ added = [k \in Keys |-> <<>>] /\ drainedTo = [k \in Keys |-> 0]
  /\ displayed = {} /\ flushResults = {}
  /\ lastFlush = [done |-> FALSE, results |-> {}]
  /\ failStreak = 0

\* the process is running
Alive == ~panicked /\ mpc # "exited"

\* a variant in which the accumulator mutex excludes nobody
MuAvailableUnlocked == TRUE

\* a.mu.Lock() returns: the accumulator mutex is not held
MuAvailable == amu = "free"

(***************************************************************************)
(* Clock.                                                                  *)
(***************************************************************************)
Tick ==
  /\ queryResult' = NoQuery /\ countResult' = NoCount /\ UNCHANGED rateVars
  /\ Alive /\ now < MaxTime
  /\ now' = now + 1
  /\ UNCHANGED <<queueVars, workerVars, accVars, mainVars, influxVars, metrics, histVars>>

(***************************************************************************)
(* Ingest dispatcher: main.go mqttHandler and the worker goroutine.        *)
(***************************************************************************)
\* a variant that makes room on a full queue by discarding its oldest entry
MqttHandlerDropOldest(p) ==
  /\ queryResult' = NoQuery /\ countResult' = NoCount /\ UNCHANGED rateVars
  /\ Alive /\ mqttConnected /\ delivered < MaxMsgs
  /\ delivered' = delivered + 1
  /\ IF chanClosed
       THEN panicked' = TRUE /\ UNCHANGED <<msgChan, dropped>>
       ELSE /\ UNCHANGED panicked
            /\ IF Len(msgChan) < QueueCap
                 THEN msgChan' = Append(msgChan, p) /\ UNCHANGED dropped
                 ELSE dropped' = dropped + 1 /\ msgChan' = Append(Tail(msgChan), p)
  /\ UNCHANGED <<chanClosed, mqttConnected>>
  /\ UNCHANGED <<now, workerVars, accVars, mainVars, influxVars, metrics, histVars>>

\* mqttHandler: select { case msgChan <- msg: default: log warning }; a send on a
\* closed channel panics
MqttHandler(p) ==
  /\ queryResult' = NoQuery /\ countResult' = NoCount /\ UNCHANGED rateVars
  /\ Alive /\ mqttConnected /\ delivered < MaxMsgs
  /\ delivered' = delivered + 1
  /\ IF chanClosed
       THEN panicked' = TRUE /\ UNCHANGED <<msgChan, dropped>>
       ELSE /\ UNCHANGED panicked
            /\ IF Len(msgChan) < QueueCap
                 THEN msgChan' = Append(msgChan, p) /\ UNCHANGED dropped
                 ELSE dropped' = dropped + 1 /\ UNCHANGED msgChan
  /\ UNCHANGED <<chanClosed, mqttConnected>>
  /\ UNCHANGED <<now, workerVars, accVars, mainVars, influxVars, metrics, histVars>>

\* a variant in which the receive leaves the message at the head of the queue
WorkerTakeKeepHead ==
  /\ queryResult' = NoQuery /\ countResult' = NoCount /\ UNCHANGED rateVars
  /\ Alive /\ wpc = "idle" /\ msgChan # <<>>
  /\ metrics' = [metrics EXCEPT !.mqttMessages = @ + 1]
  /\ IF ParseOK(Head(msgChan))
       THEN wpc' = "add" /\ wdata' = ESP32SensorData(Head(msgChan))
       ELSE UNCHANGED <<wpc, wdata>>
  /\ UNCHANGED <<msgChan, chanClosed, mqttConnected, delivered, dropped, panicked>>
  /\ UNCHANGED <<now, accVars, mainVars, influxVars, histVars>>

\* worker: msg := <-msgChan; ProcessSensorData up to the call of AddSensorData
WorkerTake ==
  /\ queryResult' = NoQuery /\ countResult' = NoCount /\ UNCHANGED rateVars
  /\ Alive /\ wpc = "idle" /\ msgChan # <<>>
  /\ msgChan' = Tail(msgChan)
  /\ metrics' = [metrics EXCEPT !.mqttMessages = @ + 1]
  /\ IF ParseOK(Head(msgChan))
       THEN wpc' = "add" /\ wdata' = ESP32SensorData(Head(msgChan))
       ELSE UNCHANGED <<wpc, wdata>>
  /\ UNCHANGED <<chanClosed, mqttConnected, delivered, dropped, panicked>>
  /\ UNCHANGED <<now, accVars, mainVars, influxVars, histVars>>

\* worker: AveragingService.AddSensorData under a.mu, then IncrementSensorReadings
WorkerAdd ==
  /\ queryResult' = NoQuery /\ countResult' = NoCount /\ UNCHANGED rateVars
  /\ Alive /\ wpc = "add" /\ MuAvailable
  /\ buffers' = AddToBuffers(buffers, wdata, now)
  /\ added' = [added EXCEPT ![BufferKey(wdata)] =
                 Append(@, wdata)]
  /\ metrics' = [metrics EXCEPT !.sensorReadings = @ + 1]
  /\ wpc' = "idle" /\ wdata' = NoData
  /\ UNCHANGED <<amu, drainedTo, displayed, flushResults, lastFlush>>
  /\ UNCHANGED <<now, queueVars, mainVars, influxVars>>

\* worker: the range loop ends when the channel is closed and empty
WorkerExit ==
  /\ queryResult' = NoQuery /\ countResult' = NoCount /\ UNCHANGED rateVars
  /\ Alive /\ wpc = "idle" /\ msgChan = <<>> /\ chanClosed
  /\ wpc' = "exited"
  /\ UNCHANGED <<wdata, now, queueVars, accVars, mainVars, influxVars, metrics, histVars>>

(***************************************************************************)
(* InfluxDBService.LogAverages, one step per critical section.             *)
(***************************************************************************)
\* LogAverages up to canExecute: the shutdown check, then the connection check
LogStart(c) ==
  /\ queryResult' = NoQuery /\ countResult' = NoCount /\ UNCHANGED rateVars
  /\ Alive /\ lpc[c] = "start"
  /\ IF shutdown
       THEN lpc' = [lpc EXCEPT ![c] = "done"] /\ lret' = [lret EXCEPT ![c] = "errShutdown"]
       ELSE IF ~connected
         THEN lpc' = [lpc EXCEPT ![c] = "done"] /\ lret' = [lret EXCEPT ![c] = "errNotConnected"]
         ELSE lpc' = [lpc EXCEPT ![c] = "canExecute"] /\ UNCHANGED lret
  /\ UNCHANGED <<connected, shutdown, breakerVars, seen, failStreak>>
  /\ UNCHANGED <<now, queueVars, workerVars, accVars, mainVars, metrics, histVars>>

\* a variant of canExecute that stamps lastFailureTime when it rejects a call
CanExecuteReadTouch(c) ==
  /\ queryResult' = NoQuery /\ countResult' = NoCount /\ UNCHANGED rateVars
  /\ Alive /\ lpc[c] = "canExecute"
  /\ IF state = StateOpen
       THEN IF TimeoutElapsed(lastFailureTime, now)
              THEN /\ lpc' = [lpc EXCEPT ![c] = "upgrade"]
                   /\ seen' = [seen EXCEPT ![c] = <<state, failureCount, lastFailureTime>>]
                   /\ UNCHANGED <<lret, lastFailureTime>>
              ELSE /\ lpc' = [lpc EXCEPT ![c] = "done"]
                   /\ lret' = [lret EXCEPT ![c] = "errBreakerOpen"]
                   /\ lastFailureTime' = now
                   /\ UNCHANGED seen
       ELSE lpc' = [lpc EXCEPT ![c] = "write"] /\ UNCHANGED <<lret, seen, lastFailureTime>>
  /\ UNCHANGED <<connected, shutdown, state, failureCount, failStreak>>
  /\ UNCHANGED <<now, queueVars, workerVars, accVars, mainVars, metrics, histVars>>

\* canExecute under i.mu.RLock(): read the state; in StateOpen compare the elapsed
\* time with the timeout and, when it has elapsed, give up the read lock
CanExecuteRead(c) ==
  /\ queryResult' = NoQuery /\ countResult' = NoCount /\ UNCHANGED rateVars
  /\ Alive /\ lpc[c] = "canExecute"
  /\ IF state = StateOpen
       THEN IF TimeoutElapsed(lastFailureTime, now)
              THEN /\ lpc' = [lpc EXCEPT ![c] = "upgrade"]
                   /\ seen' = [seen EXCEPT ![c] = <<state, failureCount, lastFailureTime>>]
                   /\ UNCHANGED lret
              ELSE /\ lpc' = [lpc EXCEPT ![c] = "done"]
                   /\ lret' = [lret EXCEPT ![c] = "errBreakerOpen"]
                   /\ UNCHANGED seen
       ELSE lpc' = [lpc EXCEPT ![c] = "write"] /\ UNCHANGED <<lret, seen>>
  /\ UNCHANGED <<connected, shutdown, breakerVars, failStreak>>
  /\ UNCHANGED <<now, queueVars, workerVars, accVars, mainVars, metrics, histVars>>

\* canExecute after i.mu.RUnlock(): i.mu.Lock(); i.state = StateHalfOpen;
\* i.mu.Unlock(); return true
CanExecuteUpgrade(c) ==
  /\ queryResult' = NoQuery /\ countResult' = NoCount /\ UNCHANGED rateVars
  /\ Alive /\ lpc[c] = "upgrade"
  /\ state' = StateHalfOpen
  /\ lpc' = [lpc EXCEPT ![c] = "write"]
  /\ seen' = [seen EXCEPT ![c] = NotSeen]
  /\ UNCHANGED <<failureCount, lastFailureTime, connected, shutdown, lret,
                 failStreak>>
  /\ UNCHANGED <<now, queueVars, workerVars, accVars, mainVars, metrics, histVars>>

\* writeAPI.WritePoint returns (ok or an error), then recordSuccess or
\* recordFailure runs under i.mu.Lock()
WriteReturn(c) ==
  /\ queryResult' = NoQuery /\ countResult' = NoCount /\ UNCHANGED rateVars
  /\ Alive /\ lpc[c] = "write"
  /\ \E ok \in BOOLEAN :
       IF ok
         THEN /\ state' = AfterSuccess(state, failureCount).state
              /\ failureCount' = AfterSuccess(state, failureCount).failureCount
              /\ UNCHANGED lastFailureTime
              /\ failStreak' = 0
              /\ lret' = [lret EXCEPT ![c] = "ok"]
         ELSE /\ failureCount' = failureCount + 1
              /\ lastFailureTime' = now
              /\ state' = StateAfterFailure(state, failureCount + 1)
              /\ failStreak' = failStreak + 1
              /\ lret' = [lret EXCEPT ![c] = "errWrite"]
  /\ lpc' = [lpc EXCEPT ![c] = "done"]
  /\ UNCHANGED <<connected, shutdown, seen>>
  /\ UNCHANGED <<now, queueVars, workerVars, accVars, mainVars, metrics, histVars>>

(***************************************************************************)
(* The periodic flush: CalculateAndDisplayAveragesWithLogging, run by the  *)
(* event loop of main on a tick.                                           *)
(***************************************************************************)
\* a variant that enters the loop over the buffers also when there is none
FlushStartAlwaysIterates ==
  /\ queryResult' = NoQuery /\ countResult' = NoCount /\ UNCHANGED rateVars
  /\ Alive /\ mpc = "loop" /\ ~tickerStopped /\ MuAvailable
  /\ flushResults' = {}
  /\ amu' = "main" /\ mpc' = "iter" /\ pending' = DOMAIN buffers
  /\ UNCHANGED lastFlush
  /\ UNCHANGED <<buffers, cur, sdi, tickerStopped, apiRunning, added, drainedTo,
                 displayed>>
  /\ UNCHANGED <<now, queueVars, workerVars, influxVars, metrics>>

\* case <-ticker.C: a.mu.Lock(); with no buffer print and return, else range
\* over the buffers
FlushStart ==
  /\ queryResult' = NoQuery /\ countResult' = NoCount /\ UNCHANGED rateVars
  /\ Alive /\ mpc = "loop" /\ ~tickerStopped /\ MuAvailable
  /\ flushResults' = {}
  /\ IF DOMAIN buffers = {}
       THEN /\ lastFlush' = [done |-> TRUE, results |-> {}]
            /\ UNCHANGED <<amu, mpc, pending>>
       ELSE /\ amu' = "main" /\ mpc' = "iter" /\ pending' = DOMAIN buffers
            /\ UNCHANGED lastFlush
  /\ UNCHANGED <<buffers, cur, sdi, tickerStopped, apiRunning, added, drainedTo,
                 displayed>>
  /\ UNCHANGED <<now, queueVars, workerVars, influxVars, metrics>>

\* a variant that logs every result when the sink is connected
FlushIterLogAlways(k) ==
  /\ queryResult' = NoQuery /\ countResult' = NoCount /\ UNCHANGED rateVars
  /\ Alive /\ mpc = "iter" /\ k \in pending
  /\ LET result == calculateAveragesForBuffer(buffers[k], now) IN
       /\ displayed' = displayed \cup
            {[key |-> k, from |-> drainedTo[k] + 1, to |-> Len(added[k]),
              result |-> result]}
       /\ flushResults' = flushResults \cup {result}
       /\ IF connected
            THEN /\ mpc' = "log" /\ cur' = k
                 /\ lpc' = [lpc EXCEPT !["main"] = "start"]
                 /\ UNCHANGED pending
            ELSE /\ pending' = pending \ {k}
                 /\ UNCHANGED <<mpc, cur, lpc>>
  /\ drainedTo' = [drainedTo EXCEPT ![k] = Len(added[k])]
  /\ UNCHANGED <<sdi, tickerStopped, apiRunning, added, lastFlush>>
  /\ UNCHANGED <<connected, shutdown, breakerVars, lret, seen, failStreak>>
  /\ UNCHANGED <<now, queueVars, workerVars, accVars, metrics>>

\* one iteration of the range loop up to the call of LogAverages: compute and
\* display the result, log it when connected and result.Readings > 0
FlushIter(k) ==
  /\ queryResult' = NoQuery /\ countResult' = NoCount /\ UNCHANGED rateVars
  /\ Alive /\ mpc = "iter" /\ k \in pending
  /\ LET result == calculateAveragesForBuffer(buffers[k], now) IN
       /\ displayed' = displayed \cup
            {[key |-> k, from |-> drainedTo[k] + 1, to |-> Len(added[k]),
              result |-> result]}
       /\ flushResults' = flushResults \cup {result}
       /\ IF connected /\ result.Readings > 0
            THEN /\ mpc' = "log" /\ cur' = k
                 /\ lpc' = [lpc EXCEPT !["main"] = "start"]
                 /\ UNCHANGED pending
            ELSE /\ pending' = pending \ {k}
                 /\ UNCHANGED <<mpc, cur, lpc>>
  /\ drainedTo' = [drainedTo EXCEPT ![k] = Len(added[k])]
  /\ UNCHANGED <<sdi, tickerStopped, apiRunning, added, lastFlush>>
  /\ UNCHANGED <<connected, shutdown, breakerVars, lret, seen, failStreak>>
  /\ UNCHANGED <<now, queueVars, workerVars, accVars, metrics>>

\* a variant that gives up the remaining keys when LogAverages returns an error
FlushLoggedAbort ==
  /\ queryResult' = NoQuery /\ countResult' = NoCount /\ UNCHANGED rateVars
  /\ Alive /\ mpc = "log" /\ lpc["main"] = "done"
  /\ metrics' = IF lret["main"] = "ok"
                  THEN [metrics EXCEPT !.influxWrites = @ + 1]
                  ELSE [metrics EXCEPT !.influxWriteErrors = @ + 1]
  /\ pending' = IF lret["main"] = "ok" THEN pending \ {cur} ELSE {}
  /\ mpc' = "iter" /\ cur' = ""
  /\ lpc' = [lpc EXCEPT !["main"] = "idle"]
  /\ lret' = [lret EXCEPT !["main"] = "none"]
  /\ UNCHANGED <<sdi, tickerStopped, apiRunning>>
  /\ UNCHANGED <<connected, shutdown, breakerVars, seen, failStreak>>
  /\ UNCHANGED <<now, queueVars, workerVars, accVars, histVars>>

\* a variant that leaves the key pending when LogAverages returns an error
FlushLoggedRetry ==
  /\ queryResult' = NoQuery /\ countResult' = NoCount /\ UNCHANGED rateVars
  /\ Alive /\ mpc = "log" /\ lpc["main"] = "done"
  /\ metrics' = IF lret["main"] = "ok"
                  THEN [metrics EXCEPT !.influxWrites = @ + 1]
                  ELSE [metrics EXCEPT !.influxWriteErrors = @ + 1]
  /\ pending' = IF lret["main"] = "ok" THEN pending \ {cur} ELSE pending
  /\ mpc' = "iter" /\ cur' = ""
  /\ lpc' = [lpc EXCEPT !["main"] = "idle"]
  /\ lret' = [lret EXCEPT !["main"] = "none"]
  /\ UNCHANGED <<sdi, tickerStopped, apiRunning>>
  /\ UNCHANGED <<connected, shutdown, breakerVars, seen, failStreak>>
  /\ UNCHANGED <<now, queueVars, workerVars, accVars, histVars>>

\* LogAverages returned: count the write or the write error, next iteration
FlushLogged ==
  /\ queryResult' = NoQuery /\ countResult' = NoCount /\ UNCHANGED rateVars
  /\ Alive /\ mpc = "log" /\ lpc["main"] = "done"
  /\ metrics' = IF lret["main"] = "ok"
                  THEN [metrics EXCEPT !.influxWrites = @ + 1]
                  ELSE [metrics EXCEPT !.influxWriteErrors = @ + 1]
  /\ pending' = pending \ {cur}
  /\ mpc' = "iter" /\ cur' = ""
  /\ lpc' = [lpc EXCEPT !["main"] = "idle"]
  /\ lret' = [lret EXCEPT !["main"] = "none"]
  /\ UNCHANGED <<sdi, tickerStopped, apiRunning>>
  /\ UNCHANGED <<connected, shutdown, breakerVars, seen, failStreak>>
  /\ UNCHANGED <<now, queueVars, workerVars, accVars, histVars>>

\* a variant in which the flush leaves the buffers in the map
FlushEndKeepBuffers ==
  /\ queryResult' = NoQuery /\ countResult' = NoCount /\ UNCHANGED rateVars
  /\ Alive /\ mpc = "iter" /\ pending = {}
  /\ amu' = "free"
  /\ mpc' = "loop"
  /\ lastFlush' = [done |-> TRUE, results |-> flushResults]
  /\ UNCHANGED <<buffers, pending, cur, sdi, tickerStopped, apiRunning>>
  /\ UNCHANGED <<added, drainedTo, displayed, flushResults>>
  /\ UNCHANGED <<now, queueVars, workerVars, influxVars, metrics>>

\* after the loop: a.buffers = make(map...), deferred a.mu.Unlock()
FlushEnd ==
  /\ queryResult' = NoQuery /\ countResult' = NoCount /\ UNCHANGED rateVars
  /\ Alive /\ mpc = "iter" /\ pending = {}
  /\ buffers' = EmptyBuffers
  /\ amu' = "free"
  /\ mpc' = "loop"
  /\ lastFlush' = [done |-> TRUE, results |-> flushResults]
  /\ UNCHANGED <<pending, cur, sdi, tickerStopped, apiRunning>>
  /\ UNCHANGED <<added, drainedTo, displayed, flushResults>>
  /\ UNCHANGED <<now, queueVars, workerVars, influxVars, metrics>>

(***************************************************************************)
(* Read path: GET /sensors/averages -> AveragingService.GetAverages.       *)
(***************************************************************************)
\* a variant that serves the results of the last completed flush
GetAveragesOfLastFlush(bufs, t) == lastFlush.results

\* GetAverages under a.mu: one result per buffer of the live map
GetAveragesResults(bufs, t) ==
  {calculateAveragesForBuffer(bufs[k], t) : k \in DOMAIN bufs}

GetAverages ==
  /\ Alive /\ apiRunning /\ MuAvailable
  /\ queryResult' = [made |-> TRUE, results |-> GetAveragesResults(buffers, now)]
  /\ countResult' = NoCount /\ UNCHANGED rateVars
  /\ UNCHANGED <<now, queueVars, workerVars, accVars, mainVars, influxVars, metrics,
                 histVars>>

(***************************************************************************)
(* Shutdown: main.go, case <-sigChan, then the deferred calls.             *)
(***************************************************************************)
\* a variant that closes the queue before it releases the sink
ShutdownOrderQueueFirst ==
  <<"ticker.Stop", "apiServer.Stop", "close(msgChan)", "sensorService.Close",
    "time.Sleep", "mqttClient.Disconnect", "sensorService.Close">>

\* the calls of the shutdown branch in program order, then time.Sleep and the
\* return, then the deferred calls in the order they run (last deferred first);
\* the deferred cancel, ticker.Stop and rateLimiter.Close touch nothing modelled
\* here and are left out
ShutdownOrder ==
  <<"ticker.Stop", "apiServer.Stop", "sensorService.Close", "close(msgChan)",
    "time.Sleep", "mqttClient.Disconnect", "sensorService.Close">>

\* case <-sigChan
Signal ==
  /\ queryResult' = NoQuery /\ countResult' = NoCount /\ UNCHANGED rateVars
  /\ Alive /\ mpc = "loop"
  /\ mpc' = "shutdown"
  /\ UNCHANGED <<pending, cur, sdi, tickerStopped, apiRunning>>
  /\ UNCHANGED <<now, queueVars, workerVars, accVars, influxVars, metrics, histVars>>

\* the next call of the shutdown sequence; the process ends after the last one
ShutdownStep ==
  /\ queryResult' = NoQuery /\ countResult' = NoCount /\ UNCHANGED rateVars
  /\ Alive /\ mpc = "shutdown"
  /\ LET step == ShutdownOrder[sdi] IN
       /\ tickerStopped' = (tickerStopped \/ step = "ticker.Stop")
       /\ apiRunning' = (apiRunning /\ step # "apiServer.Stop")
       /\ shutdown' = (shutdown \/ step = "sensorService.Close")
       /\ chanClosed' = (chanClosed \/ step = "close(msgChan)")
       /\ mqttConnected' = (mqttConnected /\ step # "mqttClient.Disconnect")
  /\ sdi' = sdi + 1
  /\ mpc' = IF sdi = Len(ShutdownOrder) THEN "exited" ELSE "shutdown"
  /\ UNCHANGED <<msgChan, delivered, dropped, panicked, pending, cur>>
  /\ UNCHANGED <<connected, breakerVars, lpc, lret, seen, failStreak>>
  /\ UNCHANGED <<now, workerVars, accVars, metrics, histVars>>

(***************************************************************************)
(* The program.                                                            *)
(***************************************************************************)
Next ==
  \/ Tick
  \/ \E p \in Payloads : MqttHandler(p)
  \/ WorkerTake
  \/ WorkerAdd
  \/ WorkerExit
  \/ FlushStart
  \/ \E k \in Keys : FlushIter(k)
  \/ LogStart("main")
  \/ CanExecuteRead("main")
  \/ CanExecuteUpgrade("main")
  \/ WriteReturn("main")
  \/ FlushLogged
  \/ FlushEnd
  \/ GetAverages
  \/ Signal
  \/ ShutdownStep

Spec == Init /\ [][Next]_vars

(***************************************************************************)
(* The breaker under concurrent callers: clients call LogAverages on the   *)
(* shared InfluxDBService in any interleaving.                             *)
(***************************************************************************)
\* a client goroutine calls LogAverages
ClientCall(c) ==
  /\ queryResult' = NoQuery /\ countResult' = NoCount /\ UNCHANGED rateVars
  /\ Alive /\ lpc[c] = "idle"
  /\ lpc' = [lpc EXCEPT ![c] = "start"]
  /\ UNCHANGED <<connected, shutdown, breakerVars, lret, seen, failStreak>>
  /\ UNCHANGED <<now, queueVars, workerVars, accVars, mainVars, metrics, histVars>>

\* LogAverages returned to the client
ClientReturn(c) ==
  /\ queryResult' = NoQuery /\ countResult' = NoCount /\ UNCHANGED rateVars
  /\ Alive /\ lpc[c] = "done"
  /\ lpc' = [lpc EXCEPT ![c] = "idle"]
  /\ lret' = [lret EXCEPT ![c] = "none"]
  /\ UNCHANGED <<connected, shutdown, breakerVars, seen, failStreak>>
  /\ UNCHANGED <<now, queueVars, workerVars, accVars, mainVars, metrics, histVars>>

NextBreaker ==
  \/ Tick
  \/ \E c \in Clients : ClientCall(c)
  \/ \E c \in Clients : LogStart(c)
  \/ \E c \in Clients : CanExecuteRead(c)
  \/ \E c \in Clients : CanExecuteUpgrade(c)
  \/ \E c \in Clients : WriteReturn(c)
  \/ \E c \in Clients : ClientReturn(c)

SpecBreaker == Init /\ [][NextBreaker]_vars

\* scheduling: the clock advances, callers keep calling LogAverages, a running
\* goroutine takes its next step and the blocking write returns
FairBreaker ==
  /\ WF_vars(Tick)
  /\ \A c \in Clients :
       /\ WF_vars(ClientCall(c)) /\ WF_vars(LogStart(c))
       /\ WF_vars(CanExecuteRead(c)) /\ WF_vars(CanExecuteUpgrade(c))
       /\ WF_vars(WriteReturn(c)) /\ WF_vars(ClientReturn(c))

SpecRecovery == Init /\ [][NextBreaker]_vars /\ FairBreaker

(***************************************************************************)
(* The sink's Close concurrent with callers of LogAverages.                *)
(***************************************************************************)
\* InfluxDBService.Close: shutdown = true under shutdownMu, then client.Close()
Close ==
  /\ queryResult' = NoQuery /\ countResult' = NoCount /\ UNCHANGED rateVars
  /\ Alive /\ ~shutdown
  /\ shutdown' = TRUE
  /\ UNCHANGED <<connected, breakerVars, lpc, lret, seen, failStreak>>
  /\ UNCHANGED <<now, queueVars, workerVars, accVars, mainVars, metrics, histVars>>

NextClose ==
  \/ NextBreaker
  \/ Close

SpecClose == Init /\ [][NextClose]_vars

(***************************************************************************)
(* The API's rate limiter: RateLimitMiddleware and checkRateLimit, one step *)
(* per Redis round trip; the clock counts minutes here.                    *)
(***************************************************************************)
\* a variant of the middleware that looks at `allowed` only
MiddlewareOutcomeIgnoreError(allowed, err) ==
  IF allowed THEN "next" ELSE "429"

\* RateLimitMiddleware after checkRateLimit returned (allowed, ..., err): on an
\* error call next, else answer 429 when not allowed, else call next
MiddlewareOutcome(allowed, err) ==
  IF err THEN "next" ELSE IF allowed THEN "next" ELSE "429"

\* a request of client ip enters the middleware: checkRateLimit builds the key
\* and runs GET; a Redis error returns (false, err); a missing key counts as 0;
\* count >= RequestsPerMinute returns (false, nil)
RateLimitGet(r, ip) ==
  /\ queryResult' = NoQuery /\ countResult' = NoCount
  /\ Alive /\ apiRunning /\ rpc[r] = "idle"
  /\ rkey' = [rkey EXCEPT ![r] = RateLimitKey(ip, now)]
  /\ \E err \in BOOLEAN :
       IF err
         THEN /\ rpc' = [rpc EXCEPT ![r] = "done"]
              /\ rout' = [rout EXCEPT ![r] = MiddlewareOutcome(FALSE, TRUE)]
              /\ rerr' = [rerr EXCEPT ![r] = TRUE]
         ELSE /\ UNCHANGED rerr
              /\ IF rlCount[RateLimitKey(ip, now)] >= RequestsPerMinute
                   THEN /\ rpc' = [rpc EXCEPT ![r] = "done"]
                        /\ rout' = [rout EXCEPT ![r] = MiddlewareOutcome(FALSE, FALSE)]
                   ELSE /\ rpc' = [rpc EXCEPT ![r] = "incr"]
                        /\ UNCHANGED rout
  /\ UNCHANGED <<rlCount, passed>>
  /\ UNCHANGED <<now, queueVars, workerVars, accVars, mainVars, influxVars, metrics,
                 histVars>>

\* checkRateLimit, the pipeline INCR + EXPIRE: on an error (the increment may
\* or may not have reached Redis) return (false, err), else (true, nil)
RateLimitIncr(r) ==
  /\ queryResult' = NoQuery /\ countResult' = NoCount
  /\ Alive /\ rpc[r] = "incr"
  /\ \E err \in BOOLEAN :
       IF err
         THEN /\ \E applied \in BOOLEAN :
                   rlCount' = IF applied THEN [rlCount EXCEPT ![rkey[r]] = @ + 1]
                              ELSE rlCount
              /\ rout' = [rout EXCEPT ![r] = MiddlewareOutcome(FALSE, TRUE)]
              /\ rerr' = [rerr EXCEPT ![r] = TRUE]
              /\ UNCHANGED passed
         ELSE /\ rlCount' = [rlCount EXCEPT ![rkey[r]] = @ + 1]
              /\ rout' = [rout EXCEPT ![r] = MiddlewareOutcome(TRUE, FALSE)]
              /\ passed' = [passed EXCEPT ![rkey[r]] = @ + 1]
              /\ UNCHANGED rerr
  /\ rpc' = [rpc EXCEPT ![r] = "done"]
  /\ UNCHANGED rkey
  /\ UNCHANGED <<now, queueVars, workerVars, accVars, mainVars, influxVars, metrics,
                 histVars>>

NextRateLimit ==
  \/ Tick
  \/ \E r \in Requests, ip \in ClientIPs : RateLimitGet(r, ip)
  \/ \E r \in Requests : RateLimitIncr(r)

SpecRateLimit == Init /\ [][NextRateLimit]_vars

(***************************************************************************)
(* The accumulator on its own: payloads of the wider sample are handed to  *)
(* SensorService.ProcessSensorData directly, the sink is not configured.   *)
(***************************************************************************)
\* SensorService.ProcessSensorData as one call: IncrementMQTTMessages,
\* json.Unmarshal (return on error), AddSensorData under a.mu,
\* IncrementSensorReadings
ProcessSensorData(p) ==
  /\ queryResult' = NoQuery /\ countResult' = NoCount /\ UNCHANGED rateVars
  /\ Alive /\ metrics.mqttMessages < MaxMsgs
  /\ IF ParseOK(p)
       THEN /\ MuAvailable
            /\ buffers' = AddToBuffers(buffers, ESP32SensorData(p), now)
            /\ added' = [added EXCEPT ![BufferKey(ESP32SensorData(p))] =
                           Append(@, ESP32SensorData(p))]
            /\ metrics' = [metrics EXCEPT !.mqttMessages = @ + 1,
                                          !.sensorReadings = @ + 1]
       ELSE /\ metrics' = [metrics EXCEPT !.mqttMessages = @ + 1]
            /\ UNCHANGED <<buffers, added>>
  /\ UNCHANGED <<amu, drainedTo, displayed, flushResults, lastFlush>>
  /\ UNCHANGED <<now, queueVars, workerVars, mainVars, influxVars>>

\* a call of AveragingService.GetReadingCount: a.mu.Lock(), sum, Unlock
ReadingCountQuery ==
  /\ Alive /\ MuAvailable
  /\ countResult' = [made |-> TRUE, count |-> GetReadingCount(buffers)]
  /\ queryResult' = NoQuery /\ UNCHANGED rateVars
  /\ UNCHANGED <<now, queueVars, workerVars, accVars, mainVars, influxVars, metrics,
                 histVars>>

\* NewInfluxDBService found no token or no server: the service has no client
InitAccumulator == Init /\ ~connected

NextAccumulator ==
  \/ \E p \in TestPayloads : ProcessSensorData(p)
  \/ FlushStart
  \/ \E k \in Keys : FlushIter(k)
  \/ FlushEnd
  \/ GetAverages
  \/ ReadingCountQuery

SpecAccumulator == InitAccumulator /\ [][NextAccumulator]_vars

(***************************************************************************)
(* Properties.                                                             *)
(***************************************************************************)
\* readings of key k added since the last flush visited k
Window(k) == SubSeq(added[k], drainedTo[k] + 1, Len(added[k]))

\* the values of field f carried by the readings rs, in order
RECURSIVE FieldValues(_, _)
FieldValues(rs, f) ==
  IF rs = <<>> THEN <<>>
  ELSE (IF f \in DOMAIN Head(rs).vals THEN <<Head(rs).vals[f]>> ELSE <<>>)
         \o FieldValues(Tail(rs), f)

\* the means a result reports are those of the readings rs
MeansOf(result, rs) ==
  \A f \in FieldSet :
    LET vs == FieldValues(rs, f) IN
      /\ f \in DOMAIN result.avg <=> vs # <<>>
      /\ vs # <<>> => result.avg[f] = Quotient(SumSeq(vs), Len(vs))

\* C1: whenever no flush is running, the readings added for a key split into
\* the batches the flushes turned into results (each reading in exactly one
\* batch, each result computed from exactly its batch) and the readings
\* still in the key's buffer; no reading is lost and none is in both.
C1_Partition ==
  amu = "free" =>
    /\ \A k \in Keys :
         /\ k \in DOMAIN buffers <=> Window(k) # <<>>
         /\ k \in DOMAIN buffers =>
              \A f \in FieldSet : buffers[k].vals[f] = FieldValues(Window(k), f)
         /\ \A i \in 1..Len(added[k]) :
              Cardinality({d \in displayed : d.key = k /\ d.from <= i /\ i <= d.to})
                = IF i <= drainedTo[k] THEN 1 ELSE 0
    /\ \A d \in displayed :
         MeansOf(d.result, SubSeq(added[d.key], d.from, d.to))

\* C1 witness: a key has readings in a flushed batch and, added by the worker
\* afterwards, readings in its new buffer
C1_Witness ==
  /\ amu = "free"
  /\ \E k \in Keys : drainedTo[k] > 0 /\ Window(k) # <<>> /\ k \in DOMAIN buffers

\* a sink write returns in this step, for a caller admitted in StateClosed
WriteReturnsInClosed ==
  /\ state = StateClosed
  /\ \E c \in Callers : lpc[c] = "write" /\ lpc'[c] = "done"

\* C2 (as claimed): in Closed the breaker opens exactly when failure_threshold
\* sink writes have failed in a row with no successful write between them.
C2_OpensOnConsecutiveFailures ==
  [][WriteReturnsInClosed => (state' = StateOpen <=> failStreak' >= threshold)]_vars

\* C3: every LogAverages call of a flush reaches canExecute; a canExecute that
\* finds the breaker Open within the open period rejects the call with the
\* breaker-open error and no sink write; one that finds the period elapsed
\* lets the call through with the breaker HalfOpen; no sink write is in
\* progress while the breaker is Open.
C3_OpenRejectsUntilTimeout ==
  /\ [](lpc["main"] = "write" => state # StateOpen)
  /\ [][\A c \in Callers :
          /\ (lpc[c] = "start" /\ lpc'[c] # "start") => lpc'[c] = "canExecute"
          /\ (lpc[c] = "canExecute" /\ lpc'[c] # "canExecute" /\ state = StateOpen) =>
               IF now - lastFailureTime <= timeout
                 THEN /\ lpc'[c] = "done" /\ lret'[c] = "errBreakerOpen"
                      /\ state' = StateOpen
                 ELSE lpc'[c] = "upgrade"
          /\ (lpc[c] = "upgrade" /\ lpc'[c] # "upgrade") =>
               state' = StateHalfOpen /\ lpc'[c] = "write"]_vars

\* C3 witness: a flush's call was rejected while the breaker is Open and the
\* open period has not elapsed
C3_Witness ==
  /\ state = StateOpen /\ now - lastFailureTime <= timeout
  /\ lpc["main"] = "done" /\ lret["main"] = "errBreakerOpen"

\* C4: the breaker is HalfOpen only while the probe's write is in progress; a
\* probe that succeeds closes the breaker with failure count 0, a probe that
\* fails reopens it at once with last_failure_time set to the current time.
C4_ProbeOutcome ==
  /\ [](state = StateHalfOpen => lpc["main"] = "write")
  /\ [][\A c \in Callers :
          (lpc[c] = "write" /\ lpc'[c] = "done" /\ state = StateHalfOpen) =>
             IF lret'[c] = "ok"
               THEN state' = StateClosed /\ failureCount' = 0
               ELSE state' = StateOpen /\ lastFailureTime' = now]_vars

\* C4 witness: a successful probe has closed the breaker after it had opened
C4_Witness ==
  /\ state = StateClosed /\ failureCount = 0
  /\ lpc["main"] = "done" /\ lret["main"] = "ok"
  /\ metrics.influxWriteErrors >= threshold

\* C5 (as claimed): no call is admitted to the sink while the breaker is
\* HalfOpen, that is while a probe's outcome has not been recorded.
C5_SingleProbe ==
  [][\A c \in Callers :
       (lpc[c] # "write" /\ lpc'[c] = "write") => state # StateHalfOpen]_vars

\* C6 (as claimed): between canExecute's read of the breaker and its write of
\* HalfOpen no other breaker mutation takes effect.
C6_CanExecuteAtomic ==
  \A c \in Callers :
    lpc[c] = "upgrade" => seen[c] = <<state, failureCount, lastFailureTime>>

\* C7 (as claimed): the accumulator lock is never held while a sink write is in
\* progress.
C7_NoLockDuringSinkWrite ==
  ~(amu # "free" /\ \E c \in Callers : lpc[c] = "write")

\* the part of a result that does not depend on the clock
ResultCore(r) ==
  [GreenhouseID |-> r.GreenhouseID, NodeID |-> r.NodeID,
   Readings |-> r.Readings, avg |-> r.avg]

\* the result of the readings rs of one key: count of the first reported field in
\* FieldOrder, mean of every reported field
WindowResult(rs) ==
  LET reported == SelectSeq(FieldOrder, LAMBDA f : FieldValues(rs, f) # <<>>) IN
    [GreenhouseID |-> rs[1].GreenhouseID, NodeID |-> rs[1].NodeID,
     Readings |-> IF reported = <<>> THEN 0
                  ELSE Len(FieldValues(rs, Head(reported))),
     avg |-> [f \in {g \in FieldSet : FieldValues(rs, g) # <<>>} |->
                Quotient(SumSeq(FieldValues(rs, f)), Len(FieldValues(rs, f)))]]

C9_QueueClosedBeforeSink ==
  /\ shutdown => chanClosed
  /\ chanClosed => tickerStopped

\* C9 (amended): the ticker is stopped first and no flush runs or starts
\* afterwards, then the sink connection is released, and only after that is
\* the dispatcher queue closed.
C9_ShutdownOrder ==
  /\ tickerStopped => mpc \in {"shutdown", "exited"}
  /\ shutdown => tickerStopped
  /\ chanClosed => shutdown

\* C9 witness: the shutdown sequence has closed the queue
C9_Witness ==
  chanClosed /\ shutdown /\ tickerStopped /\ mpc = "shutdown"

\* C10 (as claimed): the MQTT handler never sends on the closed channel.
C10_NoSendOnClosedChannel == ~panicked

\* C11 (as claimed): when the process has exited, every entry that was in the
\* queue at close(msgChan) has been taken and processed and the worker's loop
\* has ended.
C11_QueueDrainedBeforeExit ==
  mpc = "exited" => (msgChan = <<>> /\ wpc = "exited")

\* mqttHandler runs in this step on the open queue
HandlerStepOnOpenQueue == delivered' = delivered + 1 /\ ~chanClosed

\* C12: mqttHandler can always run to completion, whatever the queue holds;
\* on the open queue, a handler step that finds the queue at capacity leaves
\* its content unchanged and logs one drop, one that finds room appends
\* exactly one message at the tail behind the earlier ones; the queue never
\* holds more than its capacity.
C12_EnqueueNonBlocking ==
  /\ [](Len(msgChan) <= QueueCap)
  /\ []((Alive /\ mqttConnected /\ delivered < MaxMsgs) =>
          ENABLED (\E p \in Payloads : MqttHandler(p)))
  /\ [][HandlerStepOnOpenQueue =>
          IF Len(msgChan) = QueueCap
            THEN msgChan' = msgChan /\ dropped' = dropped + 1
            ELSE /\ \E p \in Payloads : msgChan' = Append(msgChan, p)
                 /\ dropped' = dropped]_vars

\* C12 witness: a message was dropped and the queue is still at capacity
C12_Witness ==
  dropped > 0 /\ Len(msgChan) = QueueCap /\ ~chanClosed

\* C13 (as claimed): a counter of the metrics service goes up by one in the
\* step that drops a message on the full queue.
C13_DropCounterIncrements ==
  [][(HandlerStepOnOpenQueue /\ Len(msgChan) = QueueCap) =>
       \E c \in DOMAIN metrics : metrics'[c] = metrics[c] + 1]_vars

RECURSIVE TotalLen(_, _)
\* the number of readings the history holds for the keys ks
TotalLen(h, ks) ==
  IF ks = {} THEN 0
  ELSE LET k == CHOOSE j \in ks : TRUE IN Len(h[k]) + TotalLen(h, ks \ {k})

\* C14: every message handed to mqttHandler is dropped, still queued, or was
\* taken once by the worker; the worker takes the head of the queue, which
\* leaves the queue for good, and holds it for one AddSensorData when it
\* parses; only the worker's AddSensorData folds a reading in, exactly the
\* one it holds, once; a step that drops a message queues and folds nothing.
C14_AtMostOnce ==
  /\ [](metrics.mqttMessages + Len(msgChan) + (IF panicked THEN 1 ELSE 0)
          = delivered - dropped)
  /\ [](TotalLen(added, Keys) + (IF wpc = "add" THEN 1 ELSE 0)
          <= metrics.mqttMessages)
  /\ [](wpc # "add" <=> wdata = NoData)
  /\ [][(Len(msgChan') < Len(msgChan)) =>
          /\ wpc = "idle" /\ msgChan' = Tail(msgChan) /\ added' = added
          /\ metrics'.mqttMessages = metrics.mqttMessages + 1
          /\ IF ParseOK(Head(msgChan))
               THEN wpc' = "add" /\ wdata' = ESP32SensorData(Head(msgChan))
               ELSE wpc' = "idle"]_vars
  /\ [][(added' # added) =>
          /\ wpc = "add" /\ wpc' = "idle"
          /\ added' = [added EXCEPT ![BufferKey(wdata)] = Append(@, wdata)]]_vars
  /\ [][(wpc = "add" /\ wpc' # "add") => added' # added]_vars
  /\ [][(dropped' = dropped + 1) =>
          msgChan' = msgChan /\ added' = added /\ wdata' = wdata]_vars

\* C14 witness: one message was dropped on the full queue and another, queued
\* before it, has been folded into the accumulator
C14_Witness ==
  dropped > 0 /\ TotalLen(added, Keys) > 0

\* the running flush has computed the result of key k (its buffer is still in
\* the map until the flush replaces the map)
VisitedByRunningFlush(k) ==
  amu = "main" /\ \E r \in flushResults : BufferKey(r) = k

\* C15: in every state a buffer exists for a key exactly when a reading of
\* that key was added since the last flush or the running flush is still
\* holding the key's batch; every batch a flush consumed had a reading; the
\* end of a flush leaves no buffer; a reading for a key without buffer
\* creates the key's buffer, started at the current time with that reading.
C15_BufferIffReading ==
  /\ [](/\ DOMAIN buffers \subseteq Keys
        /\ \A k \in Keys :
             k \in DOMAIN buffers <=> (Window(k) # <<>> \/ VisitedByRunningFlush(k))
        /\ \A d \in displayed : d.from <= d.to)
  /\ [][(amu = "main" /\ amu' = "free") => DOMAIN buffers' = {}]_vars
  /\ [][\A k \in Keys :
          (k \notin DOMAIN buffers /\ k \in DOMAIN buffers') =>
             /\ Len(added'[k]) = drainedTo'[k] + 1
             /\ buffers'[k].StartTime = now
             /\ \A f \in FieldSet :
                  buffers'[k].vals[f] = FieldValues(<<added'[k][Len(added'[k])]>>, f)]_vars

\* C15 witness: after a flush that consumed the readings of one key, that key
\* has no buffer and a reading added since has created the buffer of another
C15_Witness ==
  /\ amu = "free" /\ lastFlush.results # {}
  /\ \E k, j \in Keys :
       /\ drainedTo[k] > 0 /\ k \notin DOMAIN buffers
       /\ j \in DOMAIN buffers /\ drainedTo[j] = 0

\* C16: the readings folded under one key all carry one (greenhouse, node)
\* pair; each buffer holds, field by field and in order, exactly the values of
\* the readings of its own key; every result a flush computes carries its
\* key's identifiers, count and means of that key's batch alone; a flush
\* computes one result for each key that has a buffer.
C16_KeyIsolation ==
  /\ [](/\ \A k \in Keys : \A i \in 1..Len(added[k]) :
             /\ added[k][i].GreenhouseID = added[k][1].GreenhouseID
             /\ added[k][i].NodeID = added[k][1].NodeID
        /\ \A k \in DOMAIN buffers :
             Window(k) # <<>> =>
               /\ buffers[k].GreenhouseID = Window(k)[1].GreenhouseID
               /\ buffers[k].NodeID = Window(k)[1].NodeID
               /\ \A f \in FieldSet : buffers[k].vals[f] = FieldValues(Window(k), f)
        /\ \A d \in displayed :
             ResultCore(d.result) = WindowResult(SubSeq(added[d.key], d.from, d.to))
        /\ amu = "main" =>
             \A r1, r2 \in flushResults : BufferKey(r1) = BufferKey(r2) => r1 = r2)
  /\ [][(amu = "main" /\ amu' = "free") =>
          {BufferKey(r) : r \in flushResults} = DOMAIN buffers]_vars

\* C16 witness: one flush has computed the results of two keys whose readings
\* had been added in turn
C16_Witness ==
  \E r1, r2 \in lastFlush.results :
    r1.NodeID # r2.NodeID /\ r1.Readings > 0 /\ r2.Readings > 0

\* C17 (as claimed): the readings accumulated in one buffer all carry the
\* buffer's own (greenhouse, node) pair, so readings of two different pairs
\* are never in the same buffer.
C17_OneBufferPerPair ==
  \A k \in DOMAIN buffers : \A i \in 1..Len(Window(k)) :
    /\ Window(k)[i].GreenhouseID = buffers[k].GreenhouseID
    /\ Window(k)[i].NodeID = buffers[k].NodeID

\* C18 (as claimed): the count a flush reports for a key is the number of
\* readings that were folded into the key's window.
C18_CountIsNumberOfReadings ==
  \A d \in displayed : d.result.Readings = d.to - d.from + 1

\* the result reports, for the readings rs, every field that has a value with
\* sum/count as its mean and no field that has none
ReportsFieldMeans(result, rs) ==
  \A f \in FieldSet :
    LET vs == FieldValues(rs, f) IN
      IF vs = <<>>
        THEN f \notin DOMAIN result.avg
        ELSE /\ f \in DOMAIN result.avg
             /\ result.avg[f].den > 0
             /\ result.avg[f].num * Len(vs) = SumSeq(vs) * result.avg[f].den

\* C19: every result computed by a flush or returned to a read query reports
\* each field whose sequence is non-empty with mean = sum(values) /
\* count(values), and reports no field whose sequence is empty.
C19_FieldMeans ==
  /\ \A d \in displayed :
       ReportsFieldMeans(d.result, SubSeq(added[d.key], d.from, d.to))
  /\ queryResult.made =>
       \A r \in queryResult.results : ReportsFieldMeans(r, Window(BufferKey(r)))

\* C19 witness: a flush has reported a window of three readings with mean 4
\* on one field, a mean on a second field that fewer readings carried, and no
\* other field
C19_Witness ==
  \E d \in displayed :
    /\ d.to - d.from + 1 = 3
    /\ DOMAIN d.result.avg = {"Bag_Temp", "Light_Par"}
    /\ d.result.avg["Bag_Temp"] = [num |-> 4, den |-> 1]
    /\ d.result.Readings = 3

\* C20: parsing keeps a field exactly when the payload has its key, with the
\* payload's value; a buffer holds one value per reading that carried the
\* field, zeros included; a result reports a field whose values are all 0 as
\* present with mean 0 and leaves out a field that no reading carried.
C20_ZeroIsNotAbsent ==
  /\ \A p \in {q \in TestPayloads : ParseOK(q)} : \A f \in FieldSet :
       /\ f \in DOMAIN ESP32SensorData(p).vals <=> f \in DOMAIN p
       /\ f \in DOMAIN p => ESP32SensorData(p).vals[f] = p[f]
  /\ \A k \in DOMAIN buffers : \A f \in FieldSet :
       Window(k) # <<>> => Len(buffers[k].vals[f]) = Len(FieldValues(Window(k), f))
  /\ \A d \in displayed : \A f \in FieldSet :
       LET vs == FieldValues(SubSeq(added[d.key], d.from, d.to), f) IN
         /\ vs = <<>> => f \notin DOMAIN d.result.avg
         /\ (vs # <<>> /\ \A i \in 1..Len(vs) : vs[i] = 0) =>
              f \in DOMAIN d.result.avg /\ d.result.avg[f] = [num |-> 0, den |-> 1]

\* C20 witness: a flush has reported a field whose only value was 0 with mean
\* 0, next to a field no reading of the window carried
C20_Witness ==
  \E d \in displayed :
    /\ "Light_Par" \in DOMAIN d.result.avg
    /\ d.result.avg["Light_Par"] = [num |-> 0, den |-> 1]
    /\ "Air_Temp" \notin DOMAIN d.result.avg

\* C21: LogAverages is running only inside a flush iteration, for the key the
\* flush is at, and that key's result has a count above 0; a flush iteration
\* that computes a result with count 0 calls nothing of the sink and leaves
\* the breaker as it is.
C21_ZeroCountNeverLogged ==
  /\ [](lpc["main"] # "idle" =>
          /\ mpc = "log" /\ cur \in DOMAIN buffers
          /\ calculateAveragesForBuffer(buffers[cur], now).Readings > 0)
  /\ [][\A k \in Keys :
          (mpc = "iter" /\ k \in pending /\ drainedTo'[k] # drainedTo[k]
             /\ calculateAveragesForBuffer(buffers[k], now).Readings = 0) =>
            /\ lpc' = lpc /\ mpc' = "iter"
            /\ <<state, failureCount, lastFailureTime>>' =
                 <<state, failureCount, lastFailureTime>>]_vars

\* C21 witness: with the sink connected, a flush has computed a result with
\* count 0 and has gone on without a call of the sink
C21_Witness ==
  /\ connected /\ lpc["main"] = "idle" /\ mpc = "iter"
  /\ \E d \in displayed : d.result.Readings = 0 /\ d.to = Len(added[d.key])
                          /\ d.key \in DOMAIN buffers

C23_FailedWriteDoesNotAbortFlush ==
  /\ [](metrics.influxWrites + metrics.influxWriteErrors
          + (IF mpc = "log" THEN 1 ELSE 0)
        = IF connected THEN Cardinality({d \in displayed : d.result.Readings > 0})
          ELSE 0)
  /\ [][(mpc = "log" /\ mpc' # "log") =>
          /\ mpc' = "iter" /\ pending' = pending \ {cur} /\ panicked' = FALSE
          /\ buffers' = buffers]_vars
  /\ [][(amu = "main" /\ amu' = "free") =>
          /\ \A k \in DOMAIN buffers :
               \E d \in displayed : d.key = k /\ d.to = Len(added[k])
          /\ mpc' = "loop" /\ panicked' = FALSE]_vars

\* C23 witness: in the first flush the write of one key has failed and the
\* write of the other key is in progress
C23_Witness ==
  /\ mpc = "log" /\ lpc["main"] = "write"
  /\ Cardinality(displayed) = 2 /\ \A d \in displayed : d.result.Readings > 0
  /\ metrics.influxWriteErrors = 1 /\ metrics.influxWrites = 0

\* C24: a flush calls LogAverages for a key at most once, whatever the call
\* returns; the batches flushes consumed never overlap, so no reading reaches
\* the sink in two ticks; after a flush the accumulator holds only readings
\* added since, also when the write of the window failed or was rejected.
C24_NoRetry ==
  /\ [][\A k \in Keys :
          (mpc = "iter" /\ drainedTo'[k] # drainedTo[k]) =>
             ~VisitedByRunningFlush(k) /\ k \in pending]_vars
  /\ [][(mpc = "log" /\ mpc' # "log") => cur \notin pending']_vars
  /\ [](\A d1, d2 \in displayed :
          (d1.key = d2.key /\ d1 # d2) => (d1.to < d2.from \/ d2.to < d1.from))
  /\ [](amu = "free" =>
          \A k \in Keys : \A d \in displayed : d.key = k => d.to <= drainedTo[k])
  /\ [](amu = "free" =>
          \A k \in DOMAIN buffers : \A f \in FieldSet :
            buffers[k].vals[f] = FieldValues(Window(k), f))

\* C24 witness: no write has succeeded, one has failed, its flush is over and
\* the key's buffer holds only a reading added afterwards
C24_Witness ==
  /\ amu = "free" /\ metrics.influxWriteErrors > 0 /\ metrics.influxWrites = 0
  /\ \E k \in DOMAIN buffers :
       /\ drainedTo[k] > 0 /\ Len(Window(k)) = 1
       /\ \E d \in displayed : d.key = k /\ d.result.Readings > 0

\* C25: the worker's step that takes a payload which does not parse removes
\* it from the queue, leaves the accumulator and the count of readings as
\* they are, and leaves the worker ready for the next entry, which it can
\* take.
C25_ParseFailureDiscarded ==
  /\ [][(Len(msgChan') < Len(msgChan) /\ Head(msgChan) = [malformed |-> TRUE]) =>
          /\ msgChan' = Tail(msgChan)
          /\ buffers' = buffers /\ added' = added
          /\ metrics'.sensorReadings = metrics.sensorReadings
          /\ wpc' = "idle" /\ wdata' = NoData /\ panicked' = FALSE]_vars
  /\ []((Alive /\ wpc = "idle" /\ msgChan # <<>>) => ENABLED WorkerTake)

\* C25 witness: the worker has taken a payload that does not parse, nothing
\* was folded in, and the next entry is waiting in the queue
C25_Witness ==
  /\ metrics.mqttMessages = 1 /\ metrics.sensorReadings = 0
  /\ wpc = "idle" /\ msgChan # <<>> /\ DOMAIN buffers = {}

\* C26 (as claimed): while no flush runs, GetReadingCount returns the number
\* of readings the buffers hold.
C26_PendingCountIsReadings ==
  amu = "free" => GetReadingCount(buffers) = TotalLen([k \in Keys |-> Window(k)], Keys)

\* C27: when the breaker is Open, the clock can still pass the end of the open
\* period and no failed write is waiting to be returned, then the breaker
\* gets back to Closed unless another sink write fails first.
C27_BreakerRecovers ==
  (/\ state = StateOpen /\ lastFailureTime + timeout < MaxTime
   /\ \A c \in Clients : lret[c] # "errWrite")
  ~> (state = StateClosed \/ \E c \in Clients : lret[c] = "errWrite")

\* C27 witness: the breaker is Closed after a successful probe while a call it
\* had rejected when Open has not yet returned to its caller
C27_Witness ==
  /\ state = StateClosed /\ failureCount = 0
  /\ \E c, e \in Clients :
       /\ lpc[c] = "done" /\ lret[c] = "ok"
       /\ lpc[e] = "done" /\ lret[e] = "errBreakerOpen"

ReportedPositions(rs) ==
  {i \in 1..Len(FieldOrder) : FieldValues(rs, FieldOrder[i]) # <<>>}

\* C29: the fields are visited in the order Bag_Temp, Light_Par, Air_Temp,
\* Air_Rh, Leaf_temp, drip_weight, Bag_Rh1..4, Rain; the count of every result
\* is the number of values of the first field in that order that has any,
\* whatever the later fields hold, and 0 when no field has a value.
C29_CountOfFirstNonEmptyField ==
  /\ FieldOrder = <<"Bag_Temp", "Light_Par", "Air_Temp", "Air_Rh", "Leaf_temp",
                    "drip_weight", "Bag_Rh1", "Bag_Rh2", "Bag_Rh3", "Bag_Rh4", "Rain">>
  /\ \A d \in displayed :
       LET rs  == SubSeq(added[d.key], d.from, d.to)
           pos == ReportedPositions(rs)
       IN  IF pos = {} THEN d.result.Readings = 0
           ELSE \E i \in pos :
                  /\ \A j \in pos : i <= j
                  /\ d.result.Readings = Len(FieldValues(rs, FieldOrder[i]))

\* C29 witness: a flush has reported count 1 for a window whose first field
\* has one value and whose second field has two
C29_Witness ==
  \E d \in displayed :
    LET rs == SubSeq(added[d.key], d.from, d.to) IN
      /\ d.result.Readings = 1
      /\ Len(FieldValues(rs, "Bag_Temp")) = 1
      /\ Len(FieldValues(rs, "Light_Par")) = 2

\* C30: two readings of one key with disjoint field sets added in the same
\* window are in one buffer and in the batch of one result; that result
\* reports every field either of them carried, each with the mean of that
\* field's own values, and the result reports exactly the fields that some
\* reading of the batch carried.
C30_DisjointFieldSets ==
  /\ \A k \in DOMAIN buffers :
       Window(k) # <<>> =>
         \A f \in FieldSet : buffers[k].vals[f] = FieldValues(Window(k), f)
  /\ \A d \in displayed :
       LET rs == SubSeq(added[d.key], d.from, d.to) IN
         /\ DOMAIN d.result.avg = UNION {DOMAIN rs[i].vals : i \in 1..Len(rs)}
         /\ \A i, j \in 1..Len(rs) :
              (DOMAIN rs[i].vals \cap DOMAIN rs[j].vals = {}) =>
                \A f \in DOMAIN rs[i].vals \cup DOMAIN rs[j].vals :
                  /\ f \in DOMAIN d.result.avg
                  /\ d.result.avg[f] =
                       Quotient(SumSeq(FieldValues(rs, f)), Len(FieldValues(rs, f)))
  /\ \A d1, d2 \in displayed :
       (d1.key = d2.key /\ d1 # d2) => (d1.to < d2.from \/ d2.to < d1.from)

\* C30 witness: a flush has turned a window of two readings, one with Bag_Temp
\* 4 only and one with Light_Par 8 only, into one result with both means
C30_Witness ==
  \E d \in displayed :
    /\ d.to - d.from + 1 = 2
    /\ DOMAIN added[d.key][d.from].vals \cap DOMAIN added[d.key][d.to].vals = {}
    /\ d.result.avg = [f \in {"Bag_Temp", "Light_Par"} |->
                         IF f = "Bag_Temp" THEN [num |-> 4, den |-> 1]
                         ELSE [num |-> 8, den |-> 1]]

\* C31: a buffer gets its start timestamp when the first reading after a flush
\* creates it, and keeps it while later readings are added: a buffer that
\* appears holds exactly one reading and the time of that step, a buffer that
\* stays keeps its StartTime, a flush that ends leaves no buffer behind, and
\* the clock never runs backwards, so that the buffer created after a flush
\* starts no earlier than that flush.
C31_StartTimeSetAtCreation ==
  /\ [](\A k \in DOMAIN buffers : buffers[k].StartTime <= now)
  /\ [][ /\ now' >= now
         /\ \A k \in DOMAIN buffers \cap DOMAIN buffers' :
              buffers'[k].StartTime = buffers[k].StartTime
         /\ \A k \in DOMAIN buffers' \ DOMAIN buffers :
              /\ buffers'[k].StartTime = now
              /\ Len(added'[k]) = Len(added[k]) + 1
              /\ Len(added'[k]) - drainedTo'[k] = 1
         /\ (mpc = "iter" /\ mpc' = "loop") => DOMAIN buffers' = {} ]_vars

\* after a flush, a buffer created at time 1 holds two readings at time 2
C31_Witness ==
  \E k \in DOMAIN buffers :
    /\ drainedTo[k] > 0
    /\ Len(Window(k)) = 2
    /\ buffers[k].StartTime = 1
    /\ now = 2

\* C32: for each client address and one-minute window, checkRateLimit allows
\* at most RequestsPerMinute requests, however concurrent requests interleave.
C32_AtMostLimitPerWindow ==
  \A k \in RateLimitKeys : passed[k] <= RequestsPerMinute

\* C33: the rate limiter fails open: a request whose Redis read or increment
\* returned an error is handed to the next handler and is never answered 429;
\* a 429 is answered only without an error, with the counter at the limit.
C33_FailOpen ==
  /\ [](\A r \in Requests :
          /\ rerr[r] => (rpc[r] = "done" /\ rout[r] = "next")
          /\ rout[r] = "429" =>
                (~rerr[r] /\ rlCount[rkey[r]] >= RequestsPerMinute))
  /\ [][\A r \in Requests :
          (~rerr[r] /\ rerr'[r]) => (rout[r] = "none" /\ rout'[r] = "next")]_vars

\* a request met a Redis error while its counter was at the limit, and passed
C33_Witness ==
  \E r \in Requests :
    /\ rerr[r] /\ rout[r] = "next"
    /\ rlCount[rkey[r]] >= RequestsPerMinute
    /\ \E q \in Requests : rout[q] = "429" /\ rkey[q] = rkey[r]

\* C34 (as claimed): once the queue is empty and the worker is idle, the
\* counter mqtt_messages_received_total equals the number of messages the
\* transport handed to mqttHandler, the dropped ones included; the counter
\* sensor_readings_processed_total equals the number of readings added.
C34_CountersMatchTraffic ==
  /\ (msgChan = <<>> /\ wpc = "idle" /\ ~panicked) =>
        metrics.mqttMessages = delivered
  /\ metrics.sensorReadings = TotalLen(added, Keys)

\* C35 (as claimed): in every reachable state a Closed breaker has a failure
\* count below the threshold and an Open or HalfOpen breaker has one at or
\* above it, however concurrent LogAverages calls interleave.
C35_StateMatchesFailureCount ==
  /\ state = StateClosed => failureCount < threshold
  /\ state \in {StateOpen, StateHalfOpen} => failureCount >= threshold

\* C36: a LogAverages call that is rejected because the breaker is Open
\* changes neither the state nor the failure count nor the time of the last
\* failure: the step that rejects it finds the breaker Open and leaves the
\* three fields as they are, and so do the steps of the call before it.
C36_RejectionLeavesBreaker ==
  [][\A c \in Callers :
       /\ (lret[c] # "errBreakerOpen" /\ lret'[c] = "errBreakerOpen") =>
            /\ state = StateOpen /\ lpc'[c] = "done"
            /\ state' = state /\ failureCount' = failureCount
            /\ lastFailureTime' = lastFailureTime
       /\ (lpc[c] \in {"idle", "start"} /\ lpc'[c] # lpc[c]) =>
            /\ state' = state /\ failureCount' = failureCount
            /\ lastFailureTime' = lastFailureTime
       /\ (lret[c] = "errBreakerOpen" /\ lret'[c] # lret[c]) =>
            /\ lpc'[c] = "idle"
            /\ state' = state /\ failureCount' = failureCount
            /\ lastFailureTime' = lastFailureTime]_vars

\* a caller holds the breaker-open error at time 1; the breaker is Open with
\* the failure count at the threshold and the last failure still at time 0
C36_Witness ==
  \E c \in Clients :
    /\ lpc[c] = "done" /\ lret[c] = "errBreakerOpen"
    /\ state = StateOpen /\ failureCount = threshold
    /\ lastFailureTime = 0 /\ now = 1

\* C37 (as claimed): once Close has set the shutdown flag and closed the
\* client, no LogAverages call starts a sink write, and no call changes the
\* breaker state or the failure count, however Close and concurrent
\* LogAverages calls interleave.
C37_NoWriteAfterClose ==
  [][shutdown =>
       /\ \A c \in Callers : (lpc[c] # "write" /\ lpc'[c] = "write") => FALSE
       /\ state' = state /\ failureCount' = failureCount]_vars

RECURSIVE ValuesIn(_)
\* the number of field values the readings rs carry
ValuesIn(rs) ==
  IF rs = <<>> THEN 0
  ELSE Cardinality(DOMAIN Head(rs).vals) + ValuesIn(Tail(rs))

RECURSIVE ValuesInWindows(_)
\* the number of field values added for the keys ks since their last flush
ValuesInWindows(ks) ==
  IF ks = {} THEN 0
  ELSE LET k == CHOOSE j \in ks : TRUE IN
         ValuesIn(Window(k)) + ValuesInWindows(ks \ {k})

\* C38: GetAverages and GetReadingCount only read, and they are atomic with
\* respect to the flush: the step that answers leaves every buffer as it is
\* and happens only while no flush holds the accumulator; what it returns is
\* computed from all the readings added since the last completed flush, or
\* from none when nothing was added since, never from a part of them.
C38_ReadsAtomicWithFlush ==
  /\ []((queryResult.made \/ countResult.made) => (amu = "free" /\ mpc # "iter"))
  /\ [](queryResult.made =>
          /\ Cardinality(queryResult.results)
               = Cardinality({k \in Keys : Window(k) # <<>>})
          /\ \A k \in Keys :
               Window(k) # <<>> =>
                 \E r \in queryResult.results :
                   ResultCore(r) = WindowResult(Window(k))
          /\ DOMAIN buffers = {k \in Keys : Window(k) # <<>>})
  /\ [](countResult.made => countResult.count = ValuesInWindows(Keys))
  /\ [][(queryResult'.made \/ countResult'.made) =>
          /\ buffers' = buffers /\ amu' = amu
          /\ added' = added /\ drainedTo' = drainedTo]_vars

\* after a flush that reported results, GetReadingCount counts the values of
\* two readings added since
C38_Witness ==
  /\ countResult.made /\ countResult.count > 0
  /\ lastFlush.done /\ lastFlush.results # {}
  /\ \E k \in Keys : drainedTo[k] > 0 /\ Len(Window(k)) = 2

====
